---- MODULE Spec2Model ----
(***************************************************************************)
(* GeoH3Index (internal/core/src/index/H3Index.cpp): the H3 cell index     *)
(* over a column of WKB geometries, its build, its persistence and its     *)
(* queries, as a state machine of one index object.                        *)
(*                                                                         *)
(* The grid is a small tree in place of H3's: a cell is the path from a    *)
(* base cell, <<b, d1, ..., dr>>, of resolution r.  A coordinate is a      *)
(* finest cell.  A WKB string is a record of its geometry kind and its     *)
(* vertices.  Undefined behaviour of the C++ (a write past the end of a    *)
(* vector, a call through a null pointer, a read of an uninitialised       *)
(* value) is a choice between the process dying ("crash") and the process  *)
(* going on with an indeterminate value or without the write being seen.   *)
(***************************************************************************)
EXTENDS Integers, Sequences, FiniteSets, TLC

\* ------------------------------------------------------------- bounds
\* Finest resolution of the grid (h3: 15).
MaxRes == 1
\* Rows of one Build call.
MaxRows == 2
\* Queries of one In / NotIn / ExecGeoRelations call.
MaxQuery == 1
\* Offsets the index holds at most (null offsets and listed offsets).
MaxEntries == 2

\* ------------------------------------------------------------- the grid
BaseCells == {0, 1}
Digits == {0, 1}

RECURSIVE CellsAt(_)
CellsAt(r) ==
    IF r = 0 THEN {<<b>> : b \in BaseCells}
    ELSE {Append(c, d) : c \in CellsAt(r - 1), d \in Digits}

Cells == UNION {CellsAt(r) : r \in 0..MaxRes}

\* H3_NULL, the index 0: no cell.
H3_NULL == <<>>

\* ErrorCode::Success, the value AssertInfo is handed by "err = Success".
Success == 0
E_FAILED == 1

isValidCell(c) == c \in Cells

getResolution(c) == IF c = H3_NULL THEN 0 ELSE Len(c) - 1

\* cellToParent(h, parentRes, &out): the error code and, on success, out.
cellToParent(h, parentRes) ==
    IF parentRes < 0 \/ parentRes > MaxRes \/ parentRes > getResolution(h)
    THEN [err |-> E_FAILED, out |-> H3_NULL]
    ELSE [err |-> Success,
          out |-> IF h = H3_NULL THEN H3_NULL ELSE SubSeq(h, 1, parentRes + 1)]

\* The children of cell h at resolution childRes.
ChildrenOf(h, childRes) ==
    {c \in Cells : /\ Len(c) = childRes + 1
                   /\ Len(h) <= Len(c)
                   /\ SubSeq(c, 1, Len(h)) = h}

\* cellToChildrenSize(h, childRes, &out).
cellToChildrenSize(h, childRes) ==
    IF childRes < getResolution(h) \/ childRes > MaxRes
    THEN [err |-> E_FAILED, out |-> 0]
    ELSE [err |-> Success, out |-> Cardinality(ChildrenOf(h, childRes))]

\* latLngToCell(&pg, res, &out) of a finite coordinate.
latLngToCell(loc, res) == SubSeq(loc, 1, res + 1)

\* ------------------------------------------------------------- WKB values
Wkb(kind, pts) == [kind |-> kind, pts |-> pts]

\* The empty string: a null row.
EmptyStr == Wkb("Empty", <<>>)

LocA == [i \in 1..(MaxRes + 1) |-> 0]
LocB == [i \in 1..(MaxRes + 1) |-> IF i = MaxRes + 1 THEN 1 ELSE 0]
LocC == [i \in 1..(MaxRes + 1) |-> IF i = 1 THEN 1 ELSE 0]

PointA == Wkb("Point", <<LocA>>)
PointB == Wkb("Point", <<LocB>>)
PointC == Wkb("Point", <<LocC>>)
LineAB == Wkb("LineString", <<LocA, LocB>>)
PolyABC == Wkb("Polygon", <<LocA, LocB, LocC, LocA>>)
MultiA == Wkb("MultiPoint", <<LocA>>)
\* LINESTRING EMPTY: a line string of no vertex.
LineEmpty == Wkb("LineString", <<>>)
\* Bytes OGRGeometryFactory::createFromWkb cannot decode.
Garbage == Wkb("Garbage", <<>>)

\* The strings a caller hands in.
Strings == {EmptyStr, PointA, PointB, LineAB, LineEmpty, PolyABC, Garbage}

\* std::string::size() of a WKB string (byte order, type, counts, 16 a vertex).
WkbSize(s) ==
    CASE s.kind = "Empty" -> 0
      [] s.kind = "Point" -> 21
      [] s.kind = "LineString" -> 9 + 16 * Len(s.pts)
      [] s.kind = "Polygon" -> 13 + 16 * Len(s.pts)
      [] s.kind = "MultiPoint" -> 9 + 21 * Len(s.pts)
      [] OTHER -> 1

SeqsUpTo(S, n) == UNION {[1..k -> S] : k \in 0..n}

\* What a read of memory the program never wrote is sampled from: bytes that
\* decode to nothing, no bytes, and a geometry.
IndeterminateStrings == {Garbage, EmptyStr, PointA}

\* ------------------------------------------------------------- state
VARIABLES
    is_built_,        \* bool is_built_
    index_data_,      \* unordered_map<H3Index, vector<uint32_t>>: <<>> = no key
    raw_data_,        \* vector<string> raw_data_
    null_offsets_,    \* vector<size_t> null_offsets_
    total_num_rows_,  \* size_t total_num_rows_
    resolution_,      \* int resolution_
    binary,           \* the BinarySet Serialize returned last (the index files)
    origin,           \* the index as it was when binary was serialized
    column,           \* the rows of the build the index holds (values[0..n))
    ret               \* what the last call returned or threw

vars == <<is_built_, index_data_, raw_data_, null_offsets_, total_num_rows_,
          resolution_, binary, origin, column, ret>>

index == <<is_built_, index_data_, raw_data_, null_offsets_, total_num_rows_>>

NoBits == <<>>

\* op: the call; status: "ok", "error" (it threw err), "crash", "hang";
\* args, gisop, off: its arguments; bits, str: what it returned; batches: the
\* field data handed to BuildWithFieldData; index_mode: Eval's is_index_mode_.
Ret(op, status, err, args, gisop, off, bits, str) ==
    [op |-> op, status |-> status, err |-> err, args |-> args,
     gisop |-> gisop, off |-> off, bits |-> bits, str |-> str,
     batches |-> <<>>, index_mode |-> FALSE]

\* The process is alive: no call has crashed it or hangs.
Alive == ret.status \notin {"crash", "hang"}

EmptyIndexData == [c \in Cells \cup {H3_NULL} |-> <<>>]

\* ------------------------------------------------------------- outcomes
\* What getRepresentH3Index leaves in "index", or how it ends.
RCell(c) == [t |-> "cell", c |-> c, e |-> ""]
RErr(e) == [t |-> "error", c |-> H3_NULL, e |-> e]
RCrash == [t |-> "crash", c |-> H3_NULL, e |-> ""]
RHang == [t |-> "hang", c |-> H3_NULL, e |-> ""]

\* The error kinds: AssertInfo's, PanicInfo(NotImplemented)'s.
ASSERT_FAILED == "assert failed"
NOT_BUILT == "index has not been built"
OUT_OF_RANGE == "out of range"
NOT_IMPLEMENTED == "not implemented"

\* AssertInfo(expr, ...): static_cast<bool>(expr), the assertion passes.
Holds(v) == v # 0

\* The expression "err = Success": it assigns, and is the value assigned.
AssignSuccess(err) == Success

\* The parent-replacement loop: while (out.size() != 1) { --res; ... }.
RECURSIVE Reduce(_, _)
Reduce(out, res) ==
    IF Cardinality(out) = 1 THEN {RCell(CHOOSE c \in out : TRUE)}
    ELSE IF out = {} THEN {RHang}
    ELSE IF res - 1 < 0
         \* cellToParent fails and leaves "parent" uninitialised: isValidCell
         \* reads an indeterminate value, and so does every later round.
         THEN {RErr(ASSERT_FAILED), RHang} \cup {RCell(c) : c \in Cells}
         ELSE LET ps == {cellToParent(val, res - 1) : val \in out} IN
              IF \E p \in ps : p.err # Success \/ ~isValidCell(p.out)
              THEN {RErr(ASSERT_FAILED)}
              ELSE Reduce({p.out : p \in ps}, res - 1)

\* case wkbLineString: getPoint(i, point) with point == nullptr.
RepresentLineString(g, res) ==
    IF Len(g.pts) = 0 THEN Reduce({}, res)
    ELSE {RCrash, RErr(ASSERT_FAILED)} \cup
         UNION {Reduce(S, res) :
                S \in {T \in SUBSET CellsAt(res) :
                         T # {} /\ Cardinality(T) <= Len(g.pts)}}

\* case wkbPolygon: getPoint(i, point) with point == nullptr, then
\* AssertInfo(err = Success, ...), which is AssertInfo(0).
RepresentPolygon(g, res) ==
    LET covered == IF Holds(AssignSuccess(Success))
                   THEN UNION {Reduce(S, res) : S \in SUBSET CellsAt(res)}
                   ELSE {RErr(ASSERT_FAILED)}
    IN IF Len(g.pts) = 0 THEN covered ELSE {RCrash} \cup covered

getRepresentH3Index(g, res) ==
    CASE g.kind \in {"Empty", "Garbage"} -> {RErr(ASSERT_FAILED)}
      [] g.kind = "Point" ->
            LET c == latLngToCell(g.pts[1], res) IN
            IF isValidCell(c) THEN {RCell(c)} ELSE {RErr(ASSERT_FAILED)}
      [] g.kind = "LineString" -> RepresentLineString(g, res)
      [] g.kind = "Polygon" -> RepresentPolygon(g, res)
      [] OTHER -> {RErr(NOT_IMPLEMENTED)}

\* ------------------------------------------------------------- Build
Idx(data, raw, nulls) == [data |-> data, raw |-> raw, nulls |-> nulls]

BOut(t, e, st) == [t |-> t, e |-> e, st |-> st]

\* index_data_[cur_idx]->emplace_back(offset), or a new one-element vector.
AddOffset(data, cell, offset) ==
    [data EXCEPT ![cell] = Append(@, offset)]

\* raw_data_[offset] = values[offset]: the vector is never resized here.
StoreRaw(raw, offset, s) ==
    IF offset < Len(raw)
    THEN {[t |-> "ok", raw |-> [raw EXCEPT ![offset + 1] = s]]}
    ELSE {[t |-> "ok", raw |-> raw], [t |-> "crash", raw |-> raw]}

\* The rows offset..n-1 of Build's loop, from index state st.
RECURSIVE BuildRows(_, _, _, _)
BuildRows(st, values, offset, res) ==
    IF offset >= Len(values) THEN {BOut("ok", "", st)}
    ELSE LET s == values[offset + 1] IN
         IF s = EmptyStr
         THEN BuildRows([st EXCEPT !.nulls = Append(@, offset)],
                        values, offset + 1, res)
         ELSE UNION {
                IF r.t # "cell" THEN {BOut(r.t, r.e, st)}
                ELSE LET st1 == [st EXCEPT !.data = AddOffset(@, r.c, offset)] IN
                     UNION {
                       IF w.t # "ok" THEN {BOut(w.t, "", st1)}
                       ELSE BuildRows([st1 EXCEPT !.raw = w.raw],
                                      values, offset + 1, res)
                       : w \in StoreRaw(st1.raw, offset, s)}
                : r \in getRepresentH3Index(s, res)}

Entries(data, nulls) ==
    LET RECURSIVE Sum(_)
        Sum(S) == IF S = {} THEN 0
                  ELSE LET c == CHOOSE x \in S : TRUE IN
                       Len(data[c]) + Sum(S \ {c})
    IN Sum(DOMAIN data) + Len(nulls)

\* GeoH3Index::Build(size_t n, const std::string* values)
BuildEffect(values, o) ==
    /\ index_data_' = o.st.data
    /\ raw_data_' = o.st.raw
    /\ null_offsets_' = o.st.nulls
    /\ is_built_' = IF o.t = "ok" THEN TRUE ELSE is_built_
    /\ total_num_rows_' = IF o.t = "ok" THEN Len(values) ELSE total_num_rows_
    /\ column' = IF o.t = "ok" THEN values ELSE column

Build(values) ==
    /\ Alive
    /\ Entries(index_data_, null_offsets_) + Len(values) <= MaxEntries
    /\ \E o \in BuildRows(Idx(index_data_, raw_data_, null_offsets_),
                          values, 0, resolution_) :
         /\ BuildEffect(values, o)
         /\ ret' = Ret("Build", o.t, o.e, values, "", 0, NoBits, EmptyStr)
    /\ UNCHANGED <<resolution_, binary, origin>>

\* ------------------------------------------------------------- queries
\* A bitmap of n bits that are all set, whatever v.
BitsAllSet(n, v) == [i \in 1..n |-> TRUE]

\* A bitmap of one bit more than n.
BitsOneMore(n, v) == [i \in 1..(n + 1) |-> v]

Bits(n, v) == [i \in 1..n |-> v]

QOut(t, e, bits) == [t |-> t, e |-> e, bits |-> bits]

\* res.set(offset, v) for every offset of a list: TargetBitmap checks no range.
RECURSIVE SetOffsets(_, _, _)
SetOffsets(bits, offs, v) ==
    IF offs = <<>> THEN {QOut("ok", "", bits)}
    ELSE IF Head(offs) < Len(bits)
         THEN SetOffsets([bits EXCEPT ![Head(offs) + 1] = v], Tail(offs), v)
         ELSE {QOut("crash", "", NoBits)} \cup SetOffsets(bits, Tail(offs), v)

\* for (cur_res = rep_res; cur_res >= 0; --cur_res): the ancestors' lists.
RECURSIVE AncestorLoop(_, _, _, _)
AncestorLoop(bits, rep_index, cur_res, v) ==
    IF cur_res < 0 THEN {QOut("ok", "", bits)}
    ELSE LET p == cellToParent(rep_index, cur_res) IN
         IF ~Holds(AssignSuccess(p.err)) THEN {QOut("error", ASSERT_FAILED, NoBits)}
         ELSE UNION {IF s.t # "ok" THEN {s}
                     ELSE AncestorLoop(s.bits, rep_index, cur_res - 1, v)
                     : s \in SetOffsets(bits, index_data_[p.out], v)}

\* cellToChildren(rep_res, cur_res, children): the resolution is passed where
\* the cell is meant.  0 is H3_NULL and nothing is written to the
\* uninitialised array; any other number is no cell, and its "children" are
\* no cells and overrun the array.  The keys found in index_data_, or a crash.
ChildrenFound(rep_res, child_num) ==
    IF rep_res = 0
    THEN {[t |-> "ok", keys |-> K] :
            K \in {S \in SUBSET (Cells \cup {H3_NULL}) : Cardinality(S) <= child_num}}
    ELSE {[t |-> "ok", keys |-> {}], [t |-> "crash", keys |-> {}]}

RECURSIVE SetKeys(_, _, _)
SetKeys(bits, keys, v) ==
    IF keys = {} THEN {QOut("ok", "", bits)}
    ELSE LET k == CHOOSE x \in keys : TRUE IN
         UNION {IF s.t # "ok" THEN {s} ELSE SetKeys(s.bits, keys \ {k}, v)
                : s \in SetOffsets(bits, index_data_[k], v)}

\* for (cur_res = rep_res + 1; cur_res <= resolution_; ++cur_res)
RECURSIVE DescendantLoop(_, _, _, _)
DescendantLoop(bits, rep_index, cur_res, v) ==
    IF cur_res > resolution_ THEN {QOut("ok", "", bits)}
    ELSE LET n == cellToChildrenSize(rep_index, cur_res) IN
         IF n.err # Success THEN {QOut("error", ASSERT_FAILED, NoBits)}
         ELSE UNION {
                IF ch.t # "ok" THEN {QOut(ch.t, "", NoBits)}
                ELSE UNION {IF s.t # "ok" THEN {s}
                            ELSE DescendantLoop(s.bits, rep_index, cur_res + 1, v)
                            : s \in SetKeys(bits, ch.keys, v)}
                : ch \in ChildrenFound(getResolution(rep_index), n.out)}

\* The body of In's and NotIn's loop over the queries i..n-1.
RECURSIVE Candidates(_, _, _, _)
Candidates(bits, values, i, v) ==
    IF i >= Len(values) THEN {QOut("ok", "", bits)}
    ELSE UNION {
           IF r.t # "cell" THEN {QOut(r.t, r.e, NoBits)}
           ELSE UNION {
                  IF a.t # "ok" THEN {a}
                  ELSE UNION {IF d.t # "ok" THEN {d}
                              ELSE Candidates(d.bits, values, i + 1, v)
                              : d \in DescendantLoop(a.bits, r.c,
                                                     getResolution(r.c) + 1, v)}
                  : a \in AncestorLoop(bits, r.c, getResolution(r.c), v)}
           : r \in getRepresentH3Index(values[i + 1], resolution_)}

\* GeoH3Index::In(n, values): what it returns or how it ends.
InResult(values) ==
    IF ~is_built_ THEN {QOut("error", NOT_BUILT, NoBits)}
    ELSE Candidates(Bits(total_num_rows_, FALSE), values, 0, TRUE)

\* NotIn(n, values) starting from a bitmap of clear bits.
NotInFromClear(values) ==
    IF ~is_built_ THEN {QOut("error", NOT_BUILT, NoBits)}
    ELSE Candidates(Bits(total_num_rows_, FALSE), values, 0, FALSE)

\* GeoH3Index::NotIn(n, values)
NotInResult(values) ==
    IF ~is_built_ THEN {QOut("error", NOT_BUILT, NoBits)}
    ELSE Candidates(Bits(total_num_rows_, TRUE), values, 0, FALSE)

\* IsNull() without its AssertInfo(is_built_, ...).
IsNullUnchecked ==
    SetOffsets(Bits(total_num_rows_, FALSE), null_offsets_, TRUE)

\* GeoH3Index::IsNull()
IsNullResult ==
    IF ~is_built_ THEN {QOut("error", NOT_BUILT, NoBits)}
    ELSE SetOffsets(Bits(total_num_rows_, FALSE), null_offsets_, TRUE)

\* GeoH3Index::IsNotNull()
IsNotNullResult ==
    IF ~is_built_ THEN {QOut("error", NOT_BUILT, NoBits)}
    ELSE SetOffsets(Bits(total_num_rows_, TRUE), null_offsets_, FALSE)

In(values) ==
    /\ Alive
    /\ \E o \in InResult(values) :
         ret' = Ret("In", o.t, o.e, values, "", 0, o.bits, EmptyStr)
    /\ UNCHANGED <<index, resolution_, binary, origin, column>>

NotIn(values) ==
    /\ Alive
    /\ \E o \in NotInResult(values) :
         ret' = Ret("NotIn", o.t, o.e, values, "", 0, o.bits, EmptyStr)
    /\ UNCHANGED <<index, resolution_, binary, origin, column>>

IsNull ==
    /\ Alive
    /\ \E o \in IsNullResult :
         ret' = Ret("IsNull", o.t, o.e, <<>>, "", 0, o.bits, EmptyStr)
    /\ UNCHANGED <<index, resolution_, binary, origin, column>>

\* IsNotNull() that empties null_offsets_ as it reads it.
IsNotNullClearing ==
    /\ Alive
    /\ \E o \in IsNotNullResult :
         ret' = Ret("IsNotNull", o.t, o.e, <<>>, "", 0, o.bits, EmptyStr)
    /\ null_offsets_' = <<>>
    /\ UNCHANGED <<is_built_, index_data_, raw_data_, total_num_rows_,
                   resolution_, binary, origin, column>>

IsNotNull ==
    /\ Alive
    /\ \E o \in IsNotNullResult :
         ret' = Ret("IsNotNull", o.t, o.e, <<>>, "", 0, o.bits, EmptyStr)
    /\ UNCHANGED <<index, resolution_, binary, origin, column>>

\* A Range that answers with an empty bitmap.
RangeEmpty(overload) ==
    /\ Alive
    /\ ret' = Ret("Range", "ok", "", <<>>, "", overload, NoBits, EmptyStr)
    /\ UNCHANGED <<index, resolution_, binary, origin, column>>

\* GeoH3Index::Range, both overloads: PanicInfo(NotImplemented, ...).
\* overload: 1 is Range(value, op), 2 is Range(lower, lb, upper, ub).
Range(overload) ==
    /\ Alive
    /\ ret' = Ret("Range", "error", NOT_IMPLEMENTED, <<>>, "", overload, NoBits,
                  EmptyStr)
    /\ UNCHANGED <<index, resolution_, binary, origin, column>>

\* raw_data_[i] as the code reads it: past the end, any bytes or a crash.
ReadRaw(i) ==
    IF i < Len(raw_data_) THEN {[t |-> "ok", s |-> raw_data_[i + 1]]}
    ELSE {[t |-> "crash", s |-> EmptyStr]}
         \cup {[t |-> "ok", s |-> s] : s \in IndeterminateStrings}

\* GeoH3Index::Reverse_Lookup(offset)
Reverse_Lookup(offset) ==
    /\ Alive
    /\ \/ /\ ~is_built_
          /\ ret' = Ret("Reverse_Lookup", "error", NOT_BUILT, <<>>, "", offset,
                        NoBits, EmptyStr)
       \/ /\ is_built_ /\ ~(offset < total_num_rows_)
          /\ ret' = Ret("Reverse_Lookup", "error", OUT_OF_RANGE, <<>>, "", offset,
                        NoBits, EmptyStr)
       \/ /\ is_built_ /\ offset < total_num_rows_
          /\ \E r \in ReadRaw(offset) :
               ret' = Ret("Reverse_Lookup", r.t, "", <<>>, "", offset, NoBits, r.s)
    /\ UNCHANGED <<index, resolution_, binary, origin, column>>

\* ------------------------------------------------------------- persistence
sizeof_H3Index == 8
sizeof_uint32_t == 4

\* One field of the INDEX_DATA stream, w bytes wide.
TokCell(c) == [k |-> "cell", c |-> c, n |-> 0, s |-> EmptyStr, w |-> sizeof_H3Index]
TokU32(n) == [k |-> "u32", c |-> H3_NULL, n |-> n, s |-> EmptyStr, w |-> sizeof_uint32_t]
TokBytes(s) == [k |-> "bytes", c |-> H3_NULL, n |-> 0, s |-> s, w |-> WkbSize(s)]

RECURSIVE Width(_)
Width(toks) == IF toks = <<>> THEN 0 ELSE Head(toks).w + Width(Tail(toks))

\* The keys of index_data_, in the order the map is iterated (one order
\* stands for the unordered_map's).
RECURSIVE KeyOrder(_)
KeyOrder(S) ==
    IF S = {} THEN <<>>
    ELSE LET c == CHOOSE x \in S : \A y \in S : Len(x) < Len(y) \/
                      (Len(x) = Len(y) /\ \A i \in 1..Len(x) :
                          (\A j \in 1..(i - 1) : x[j] = y[j]) => x[i] <= y[i])
         IN <<c>> \o KeyOrder(S \ {c})

Keys(data) == {c \in DOMAIN data : data[c] # <<>>}

RECURSIVE SumOver(_, _)
SumOver(f, S) ==
    IF S = {} THEN 0
    ELSE LET x == CHOOSE y \in S : TRUE IN f[x] + SumOver(f, S \ {x})

\* GeoH3Index::GetIndexDataSize()
GetIndexDataSize ==
    SumOver([c \in Keys(index_data_) |->
               sizeof_H3Index + sizeof_uint32_t
               + Len(index_data_[c]) * sizeof_uint32_t],
            Keys(index_data_))
    + SumOver([i \in 1..Len(raw_data_) |->
                 sizeof_uint32_t + WkbSize(raw_data_[i])],
              1..Len(raw_data_))

SOut(t, toks) == [t |-> t, toks |-> toks]

\* for (auto& offset : *(iter->second)): offset, wkb_byte_size, the bytes.
RECURSIVE SerializeOffsets(_)
SerializeOffsets(offs) ==
    IF offs = <<>> THEN {SOut("ok", <<>>)}
    ELSE UNION {
           IF r.t # "ok" THEN {SOut(r.t, <<>>)}
           ELSE {IF rest.t # "ok" THEN rest
                 ELSE SOut("ok", <<TokU32(Head(offs)), TokU32(WkbSize(r.s)),
                                   TokBytes(r.s)>> \o rest.toks)
                 : rest \in SerializeOffsets(Tail(offs))}
           : r \in ReadRaw(Head(offs))}

\* GeoH3Index::SerializeIndexData(data_ptr): the fields it writes.
RECURSIVE SerializeIndexData(_)
SerializeIndexData(keys) ==
    IF keys = <<>> THEN {SOut("ok", <<>>)}
    ELSE UNION {
           IF o.t # "ok" THEN {o}
           ELSE {IF rest.t # "ok" THEN rest
                 ELSE SOut("ok", <<TokCell(Head(keys)),
                                   TokU32(Len(index_data_[Head(keys)]))>>
                                 \o o.toks \o rest.toks)
                 : rest \in SerializeIndexData(Tail(keys))}
           : o \in SerializeOffsets(index_data_[Head(keys)])}

NoBinary == [data |-> <<>>, data_size |-> 0, nulls |-> <<>>, num_rows |-> 0,
             set |-> FALSE]

NoOrigin == [data |-> EmptyIndexData, raw |-> <<>>, nulls |-> <<>>, total |-> 0,
             column |-> <<>>]

\* GeoH3Index::Serialize(config): the BinarySet, or how it ends.  Writing
\* more fields than the buffer holds overruns it.
SerializeResult ==
    UNION {
      IF o.t # "ok" THEN {[t |-> o.t, bs |-> NoBinary]}
      ELSE LET bs == [data |-> o.toks, data_size |-> GetIndexDataSize,
                      nulls |-> null_offsets_, num_rows |-> total_num_rows_,
                      set |-> TRUE] IN
           IF Width(o.toks) > GetIndexDataSize
           THEN {[t |-> "ok", bs |-> bs], [t |-> "crash", bs |-> NoBinary]}
           ELSE {[t |-> "ok", bs |-> bs]}
      : o \in SerializeIndexData(KeyOrder(Keys(index_data_)))}

SerializeEffect(op) ==
    /\ \/ /\ ~is_built_
          /\ ret' = Ret(op, "error", NOT_BUILT, <<>>, "", 0, NoBits, EmptyStr)
          /\ UNCHANGED <<binary, origin>>
       \/ /\ is_built_
          /\ \E o \in SerializeResult :
               /\ ret' = Ret(op, o.t, "", <<>>, "", 0, NoBits, EmptyStr)
               /\ binary' = IF o.t = "ok" THEN o.bs ELSE binary
               /\ origin' = IF o.t = "ok"
                            THEN [data |-> index_data_, raw |-> raw_data_,
                                  nulls |-> null_offsets_,
                                  total |-> total_num_rows_,
                                  column |-> column]
                            ELSE origin
    /\ UNCHANGED <<index, resolution_, column>>

Serialize ==
    /\ Alive
    /\ SerializeEffect("Serialize")

\* GeoH3Index::Upload(config): Serialize, and the set handed to the file manager.
Upload ==
    /\ Alive
    /\ SerializeEffect("Upload")

\* A read of w bytes at pos for field i of the stream: the field, when it lies
\* within the index_length bytes; past them any value of dom, or a crash.
ReadTok(toks, i, pos, size, w, dom) ==
    IF i <= Len(toks) /\ pos + w <= size /\ toks[i].w = w
    THEN {[t |-> "ok", v |-> toks[i]]}
    ELSE {[t |-> "crash", v |-> TokU32(0)]} \cup {[t |-> "ok", v |-> v] : v \in dom}

IndeterminateCell == {TokCell(H3_NULL), TokCell(<<0>>)}
IndeterminateU32 == {TokU32(0), TokU32(1)}
IndeterminateBytes(w) ==
    {TokBytes(s) : s \in {x \in IndeterminateStrings : WkbSize(x) = w}}

DOut(t, st) == [t |-> t, st |-> st]

\* DeserializeIndexData's loops: the records from field i at pos, then entry
\* k of the n entries of the record of cell.  n < 0: between records.
RECURSIVE Deserialize(_, _, _, _, _, _, _, _)
Deserialize(st, toks, i, pos, size, cell, n, k) ==
    IF n < 0
    THEN IF ~(pos < size) THEN {DOut("ok", st)}
         ELSE UNION {
                IF c.t # "ok" THEN {DOut(c.t, st)}
                ELSE UNION {
                       IF m.t # "ok" THEN {DOut(m.t, st)}
                       ELSE IF m.v.n = 0
                            THEN Deserialize(st, toks, i + 2,
                                             pos + sizeof_H3Index + sizeof_uint32_t,
                                             size, H3_NULL, -1, 0)
                            ELSE Deserialize(st, toks, i + 2,
                                             pos + sizeof_H3Index + sizeof_uint32_t,
                                             size, c.v.c, m.v.n, 0)
                       : m \in ReadTok(toks, i + 1, pos + sizeof_H3Index, size,
                                       sizeof_uint32_t, IndeterminateU32)}
                : c \in ReadTok(toks, i, pos, size, sizeof_H3Index,
                                IndeterminateCell)}
    ELSE IF k >= n THEN Deserialize(st, toks, i, pos, size, H3_NULL, -1, 0)
    ELSE UNION {
           IF o.t # "ok" THEN {DOut(o.t, st)}
           ELSE UNION {
             IF z.t # "ok" THEN {DOut(z.t, st)}
             ELSE UNION {
               IF b.t # "ok" THEN {DOut(b.t, st)}
               ELSE LET st1 == [st EXCEPT !.data[cell] =
                                  IF k = 0 THEN <<o.v.n>> ELSE Append(@, o.v.n)] IN
                    UNION {
                      IF w.t # "ok" THEN {DOut(w.t, st1)}
                      ELSE Deserialize([st1 EXCEPT !.raw = w.raw], toks, i + 3,
                                       pos + 2 * sizeof_uint32_t + b.v.w, size,
                                       cell, n, k + 1)
                      : w \in StoreRaw(st1.raw, o.v.n, b.v.s)}
               : b \in IF z.v.k = "u32"
                       THEN ReadTok(toks, i + 2, pos + 2 * sizeof_uint32_t, size,
                                    z.v.n, IndeterminateBytes(z.v.n))
                       ELSE {[t |-> "ok", v |-> z.v]}}
             : z \in ReadTok(toks, i + 1, pos + sizeof_uint32_t, size,
                             sizeof_uint32_t,
                             {TokBytes(s) : s \in IndeterminateStrings})}
           : o \in ReadTok(toks, i, pos, size, sizeof_uint32_t, IndeterminateU32)}

\* raw_data_.resize(total_num_rows_)
Resize(raw, n) == [i \in 1..n |-> IF i <= Len(raw) THEN raw[i] ELSE EmptyStr]

\* GeoH3Index::DeserializeIndexData(data_ptr, index_length)
DeserializeIndexData(st, bs) ==
    Deserialize([st EXCEPT !.raw = Resize(@, bs.num_rows)],
                bs.data, 1, 0, bs.data_size, H3_NULL, -1, 0)

\* std::memcpy(null_offsets_.data(), ..., size): the vector is not resized.
CopyNulls(nulls, src) ==
    LET copied == [i \in 1..Len(nulls) |->
                     IF i <= Len(src) THEN src[i] ELSE nulls[i]] IN
    IF Len(src) <= Len(nulls) THEN {[t |-> "ok", nulls |-> copied]}
    ELSE {[t |-> "ok", nulls |-> copied], [t |-> "crash", nulls |-> copied]}

\* GeoH3Index::LoadWithoutAssemble(binary_set, config)
LoadResult(bs) ==
    UNION {
      IF c.t # "ok" THEN {DOut(c.t, Idx(index_data_, raw_data_, c.nulls))}
      ELSE DeserializeIndexData(Idx(index_data_, raw_data_, c.nulls), bs)
      : c \in CopyNulls(null_offsets_, bs.nulls)}

LoadEffect(op) ==
    /\ \E o \in LoadResult(binary) :
         /\ index_data_' = o.st.data
         /\ raw_data_' = o.st.raw
         /\ null_offsets_' = o.st.nulls
         /\ total_num_rows_' = binary.num_rows
         /\ is_built_' = IF o.t = "ok" THEN TRUE ELSE is_built_
         /\ column' = IF o.t = "ok" THEN origin.column ELSE column
         /\ ret' = Ret(op, o.t, "", <<>>, "", 0, NoBits, EmptyStr)
    /\ UNCHANGED <<resolution_, binary, origin>>

LoadWithoutAssemble ==
    /\ Alive
    /\ binary.set
    /\ LoadEffect("LoadWithoutAssemble")

\* GeoH3Index::Load(index_binary, config): Assemble, LoadWithoutAssemble.
Load ==
    /\ Alive
    /\ binary.set
    /\ LoadEffect("Load")

\* GeoH3Index::Load(ctx, config): the files of config's index_files, read
\* through the file manager; has_files: the config holds the key.
LoadFiles(has_files) ==
    /\ Alive
    /\ binary.set
    /\ IF has_files THEN LoadEffect("LoadFiles")
       ELSE /\ ret' = Ret("LoadFiles", "error", ASSERT_FAILED, <<>>, "", 0,
                          NoBits, EmptyStr)
            /\ UNCHANGED <<index, resolution_, binary, origin, column>>

LoadOps == {"LoadWithoutAssemble", "Load", "LoadFiles"}

\* ------------------------------------------------------------- predicates
\* The seven GISFunctionFilterExpr_GISOp values, and one outside them.
GisOps == {"Equals", "Touches", "Overlaps", "Crosses", "Contains",
           "Intersects", "Within"}

\* GeoSpatial(ptr, size).IsValid(): createFromWkb decoded the bytes.
IsValid(s) == s.kind \notin {"Empty", "Garbage"}

\* The points of a geometry, and its dimension.
PointSet(s) == {s.pts[i] : i \in 1..Len(s.pts)}
Dimension(s) == CASE s.kind \in {"Point", "MultiPoint"} -> 0
                  [] s.kind = "LineString" -> 1
                  [] OTHER -> 2

\* origin.method(other) of the geometry handle, on valid handles.
GeoPredicate(op, a, b) ==
    LET A == PointSet(a)
        B == PointSet(b)
    IN CASE op = "Equals" -> A = B /\ Dimension(a) = Dimension(b)
         [] op = "Intersects" -> A \cap B # {}
         [] op = "Within" -> A \subseteq B /\ A # {}
         [] op = "Contains" -> B \subseteq A /\ B # {}
         [] op = "Overlaps" -> /\ Dimension(a) = Dimension(b)
                               /\ A \cap B # {}
                               /\ ~(A \subseteq B) /\ ~(B \subseteq A)
         [] op = "Crosses" -> /\ Dimension(a) # Dimension(b)
                              /\ A \cap B # {}
                              /\ ~(A \subseteq B) /\ ~(B \subseteq A)
         [] op = "Touches" -> /\ A \cap B # {}
                              /\ Dimension(a) + Dimension(b) > 0
                              /\ ~(A \subseteq B) /\ ~(B \subseteq A)
                              /\ Cardinality(A \cap B) = 1
         [] OTHER -> FALSE

INVALID_GEOMETRY == "invalid geometry"

\* INDEX_EXEC_GISOP(method), from values[i] on: the first values[i] that
\* matches geo ends the loop ("match"); a predicate on a handle that decoded
\* nothing fails ("error"); no match is "none".
RECURSIVE ExecGisop(_, _, _, _)
ExecGisop(op, geo, values, i) ==
    IF i >= Len(values) THEN "none"
    ELSE IF ~IsValid(geo) \/ ~IsValid(values[i + 1]) THEN "error"
    ELSE IF GeoPredicate(op, geo, values[i + 1]) THEN "match"
    ELSE ExecGisop(op, geo, values, i + 1)

\* ExecGeoRelations' loop over the set bits of Inmap, from offset idx on.
RECURSIVE ExecCandidates(_, _, _, _, _)
ExecCandidates(res, inmap, idx, values, op) ==
    IF idx >= Len(inmap) THEN {QOut("ok", "", res)}
    ELSE IF ~inmap[idx + 1] THEN ExecCandidates(res, inmap, idx + 1, values, op)
    ELSE UNION {
           IF r.t # "ok" THEN {QOut(r.t, "", NoBits)}
           ELSE IF op \notin GisOps THEN {QOut("error", NOT_IMPLEMENTED, NoBits)}
           ELSE IF ExecGisop(op, r.s, values, 0) = "error"
                THEN {QOut("error", INVALID_GEOMETRY, NoBits)}
           ELSE IF ExecGisop(op, r.s, values, 0) = "match"
                THEN UNION {IF s.t # "ok" THEN {s}
                            ELSE ExecCandidates(s.bits, inmap, idx + 1, values, op)
                            : s \in SetOffsets(res, <<idx>>, TRUE)}
                ELSE ExecCandidates(res, inmap, idx + 1, values, op)
           : r \in ReadRaw(idx)}

\* GeoH3Index::ExecGeoRelations(n, values, op)
ExecGeoRelationsResult(values, op) ==
    UNION {IF m.t # "ok" THEN {m}
           ELSE ExecCandidates(Bits(total_num_rows_, FALSE), m.bits, 0, values, op)
           : m \in InResult(values)}

ExecGeoRelations(values, op) ==
    /\ Alive
    /\ \E o \in ExecGeoRelationsResult(values, op) :
         ret' = Ret("ExecGeoRelations", o.t, o.e, values, op, 0, o.bits, EmptyStr)
    /\ UNCHANGED <<index, resolution_, binary, origin, column>>

\* ------------------------------------------------------------- the operator
\* PhyGISFunctionFilterExpr over the segment whose rows are column; one batch
\* is the whole column.
\* The loop of execute_sub_batch over the rows from i on: res[i] is
\* GeoSpatial(data[i]).method(right_source).
RECURSIVE DataRows(_, _, _, _, _)
DataRows(bits, rows, i, wkb, op) ==
    IF i >= Len(rows) THEN QOut("ok", "", bits)
    ELSE IF ~IsValid(rows[i + 1]) \/ ~IsValid(wkb)
         THEN QOut("error", INVALID_GEOMETRY, NoBits)
         ELSE DataRows([bits EXCEPT ![i + 1] = GeoPredicate(op, rows[i + 1], wkb)],
                       rows, i + 1, wkb, op)

\* PhyGISFunctionFilterExpr::EvalForDataSegment(); no bitmap is nullptr.
EvalForDataSegment(rows, wkb, op) ==
    IF Len(rows) = 0 THEN {QOut("ok", "", NoBits)}
    ELSE IF op \notin GisOps THEN {QOut("error", NOT_IMPLEMENTED, NoBits)}
    ELSE {DataRows(Bits(Len(rows), FALSE), rows, 0, wkb, op)}

\* PhyGISFunctionFilterExpr::EvalForIndexSegment()
EvalForIndexSegment(rows, wkb, op) ==
    IF Len(rows) = 0 THEN {QOut("ok", "", NoBits)}
    ELSE {IF e.t = "ok" /\ Len(e.bits) # Len(rows)
          THEN QOut("error", ASSERT_FAILED, NoBits)
          ELSE e
          : e \in ExecGeoRelationsResult(<<wkb>>, op)}

\* PhyGISFunctionFilterExpr::Eval(context, result): in index mode the result
\* is assigned and PanicInfo(NotImplemented, ...) follows.
EvalResult(index_mode, wkb, op) ==
    IF index_mode
    THEN {IF e.t = "ok" THEN QOut("error", NOT_IMPLEMENTED, NoBits) ELSE e
          : e \in EvalForIndexSegment(column, wkb, op)}
    ELSE EvalForDataSegment(column, wkb, op)

Eval(index_mode, wkb, op) ==
    /\ Alive
    /\ \E o \in EvalResult(index_mode, wkb, op) :
         ret' = [Ret("Eval", o.t, o.e, <<wkb>>, op, 0, o.bits, EmptyStr)
                 EXCEPT !.index_mode = index_mode]
    /\ UNCHANGED <<index, resolution_, binary, origin, column>>

\* The query geometries of an expression.
EvalStrings == {PointA, LineAB, Garbage}

\* ------------------------------------------------------------- field data
\* A FieldData batch: its data type and its rows (validity flag, bytes).
Row(valid, s) == [valid |-> valid, s |-> s]
Batch(type, rows) == [type |-> type, rows |-> rows]

\* The inner loop without its is_valid(i) test.
FlattenRowsKeepBytes(rows) == [i \in 1..Len(rows) |-> rows[i].s]

\* The inner loop of BuildWithFieldData over one batch.
FlattenRows(rows) ==
    [i \in 1..Len(rows) |-> IF ~rows[i].valid THEN EmptyStr ELSE rows[i].s]

\* all_datas of BuildWithFieldData: batches of another type are skipped.
RECURSIVE Flatten(_)
Flatten(field_datas) ==
    IF field_datas = <<>> THEN <<>>
    ELSE (IF Head(field_datas).type # "GEOSPATIAL" THEN <<>>
          ELSE FlattenRows(Head(field_datas).rows))
         \o Flatten(Tail(field_datas))

\* GeoH3Index::BuildWithFieldData(field_datas)
BuildWithFieldData(field_datas) ==
    LET values == Flatten(field_datas) IN
    /\ Alive
    /\ Entries(index_data_, null_offsets_) + Len(values) <= MaxEntries
    /\ \E o \in BuildRows(Idx(index_data_, raw_data_, null_offsets_),
                          values, 0, resolution_) :
         /\ BuildEffect(values, o)
         /\ ret' = [Ret("BuildWithFieldData", o.t, o.e, values, "", 0, NoBits,
                        EmptyStr) EXCEPT !.batches = field_datas]
    /\ UNCHANGED <<resolution_, binary, origin>>

\* GeoH3Index::Build(config): field_datas is what the file manager reads from
\* insert_files; has_files: the config holds the key.
BuildConfig(has_files, field_datas) ==
    LET values == Flatten(field_datas) IN
    /\ Alive
    /\ Entries(index_data_, null_offsets_) + Len(values) <= MaxEntries
    /\ IF is_built_
       THEN /\ ret' = Ret("BuildConfig", "ok", "", <<>>, "", 0, NoBits, EmptyStr)
            /\ UNCHANGED <<index, column>>
       ELSE IF ~has_files
       THEN /\ ret' = Ret("BuildConfig", "error", ASSERT_FAILED, <<>>, "", 0,
                          NoBits, EmptyStr)
            /\ UNCHANGED <<index, column>>
       ELSE \E o \in BuildRows(Idx(index_data_, raw_data_, null_offsets_),
                               values, 0, resolution_) :
              /\ BuildEffect(values, o)
              /\ ret' = [Ret("BuildConfig", o.t, o.e, values, "", 0, NoBits,
                             EmptyStr) EXCEPT !.batches = field_datas]
    /\ UNCHANGED <<resolution_, binary, origin>>

FieldRows == {Row(TRUE, PointA), Row(FALSE, PointB), Row(TRUE, Garbage)}
FieldBatches ==
    {Batch(type, rows) : type \in {"GEOSPATIAL", "VARCHAR"},
                         rows \in SeqsUpTo(FieldRows, 1)}

\* GeoH3Index::GeoH3Index(file_manager_context, resolution): a new object.
Construct(r) ==
    /\ Alive
    /\ is_built_' = FALSE
    /\ index_data_' = EmptyIndexData
    /\ raw_data_' = <<>>
    /\ null_offsets_' = <<>>
    /\ total_num_rows_' = 0
    /\ resolution_' = r
    /\ column' = <<>>
    /\ UNCHANGED <<binary, origin>>
    /\ ret' = Ret("Construct", "ok", "", <<>>, "", 0, NoBits, EmptyStr)

Init ==
    /\ is_built_ = FALSE
    /\ index_data_ = EmptyIndexData
    /\ raw_data_ = <<>>
    /\ null_offsets_ = <<>>
    /\ total_num_rows_ = 0
    /\ resolution_ \in 0..MaxRes
    /\ binary = NoBinary
    /\ origin = NoOrigin
    /\ column = <<>>
    /\ ret = Ret("Construct", "ok", "", <<>>, "", 0, NoBits, EmptyStr)

Next ==
    \/ \E r \in 0..MaxRes : Construct(r)
    \/ \E values \in SeqsUpTo(Strings, MaxRows) : Build(values)
    \/ \E values \in SeqsUpTo(Strings, MaxQuery) : In(values)
    \/ \E values \in SeqsUpTo(Strings, MaxQuery) : NotIn(values)
    \/ IsNull
    \/ IsNotNull
    \/ \E overload \in {1, 2} : Range(overload)
    \/ \E offset \in 0..MaxRows : Reverse_Lookup(offset)
    \/ \E values \in SeqsUpTo(Strings, MaxQuery),
          op \in {"Equals", "Intersects", "Unknown"} :
          ExecGeoRelations(values, op)
    \/ \E field_datas \in SeqsUpTo(FieldBatches, MaxRows) :
          BuildWithFieldData(field_datas)
    \/ \E has_files \in BOOLEAN, field_datas \in SeqsUpTo(FieldBatches, 1) :
          BuildConfig(has_files, field_datas)
    \/ \E index_mode \in BOOLEAN, wkb \in EvalStrings,
          op \in {"Equals", "Intersects", "Unknown"} :
          Eval(index_mode, wkb, op)

\* Persistence, over a column of nulls and points.
PersistStrings == {EmptyStr, PointA, PointB}

NextPersist ==
    \/ \E r \in 0..MaxRes : Construct(r)
    \/ \E values \in SeqsUpTo(PersistStrings, MaxRows) :
          ~binary.set /\ Build(values)
    \/ ~binary.set /\ Serialize
    \/ ~binary.set /\ Upload
    \/ LoadWithoutAssemble
    \/ Load
    \/ \E has_files \in BOOLEAN : LoadFiles(has_files)
    \/ IsNull
    \/ \E offset \in 0..MaxRows : Reverse_Lookup(offset)

SpecPersist == Init /\ [][NextPersist]_vars

\* The readers of a built index: the queries and Serialize, called in any
\* order by any thread once a build has completed.  No call writes a member,
\* so a call is one step.
NextReaders ==
    \/ \E values \in SeqsUpTo(PersistStrings, MaxRows) :
          ~is_built_ /\ Build(values)
    \/ \E values \in SeqsUpTo(PersistStrings, MaxQuery) :
          is_built_ /\ In(values)
    \/ \E values \in SeqsUpTo(PersistStrings, MaxQuery) :
          is_built_ /\ NotIn(values)
    \/ is_built_ /\ IsNull
    \/ is_built_ /\ IsNotNull
    \/ \E offset \in 0..MaxRows : is_built_ /\ Reverse_Lookup(offset)
    \/ \E values \in SeqsUpTo(PersistStrings, MaxQuery),
          op \in {"Equals", "Intersects", "Unknown"} :
          is_built_ /\ ExecGeoRelations(values, op)
    \/ is_built_ /\ Serialize

SpecReaders == Init /\ [][NextReaders]_vars

Spec == Init /\ [][Next]_vars

\* ------------------------------------------------------------- properties
BuildOps == {"Build", "BuildWithFieldData", "BuildConfig"}
QueryOps == {"In", "NotIn", "IsNull", "IsNotNull", "Reverse_Lookup",
             "ExecGeoRelations"}

AllKeys == Cells \cup {H3_NULL}

\* How often offset k is listed in a vector of offsets.
Occurrences(offs, k) == Cardinality({i \in 1..Len(offs) : offs[i] = k})

\* How often offset k is listed across null_offsets_ and index_data_.
Listed(k) ==
    Occurrences(null_offsets_, k)
    + SumOver([c \in AllKeys |-> Occurrences(index_data_[c], k)], AllKeys)

\* Row k is a non-null row of the index: some cell lists it.
NonNullRow(k) == \E c \in AllKeys : Occurrences(index_data_[c], k) > 0

\* Cell c is q, an ancestor of q or a descendant of q.
Related(c, q) ==
    LET m == IF Len(c) < Len(q) THEN Len(c) ELSE Len(q) IN
    SubSeq(c, 1, m) = SubSeq(q, 1, m)

\* The object LoadWithoutAssemble is called on is a new one.
Fresh ==
    /\ ~is_built_
    /\ index_data_ = EmptyIndexData
    /\ raw_data_ = <<>>
    /\ null_offsets_ = <<>>
    /\ total_num_rows_ = 0

\* C1: round trip.  A load of Serialize's output into a new index completes,
\* and the loaded index has the total_rows, the null offsets, the per-cell
\* offset lists and the per-row raw bytes of the index that was serialized.
C1_RoundTrip ==
    [][(Fresh /\ ret'.op \in LoadOps /\ ret'.status # "error")
         => /\ ret'.status = "ok"
            /\ total_num_rows_' = origin.total
            /\ null_offsets_' = origin.nulls
            /\ index_data_' = origin.data
            /\ raw_data_' = origin.raw]_vars

\* C2: row coverage.  In a built index every offset 0..total_rows-1 is listed
\* exactly once across the null offsets and the cells' lists, no listed
\* offset is >= total_rows, and the lists' lengths and the number of null
\* offsets add up to total_rows.
C2_RowCoverage ==
    (Alive /\ is_built_) =>
        /\ \A k \in 0..(total_num_rows_ - 1) : Listed(k) = 1
        /\ \A k \in 0..(MaxRows + MaxEntries) :
               k >= total_num_rows_ => Listed(k) = 0
        /\ Entries(index_data_, null_offsets_) = total_num_rows_

\* C3: In over point queries returns the bitmap of total_rows bits in which
\* bit i is set exactly when row i is listed under a cell that is the
\* representative cell of some query, an ancestor of it or a descendant of it.
C3_InBitmap ==
    (/\ ret.op = "In"
     /\ is_built_
     /\ \A j \in 1..Len(ret.args) : ret.args[j].kind = "Point")
    => /\ ret.status = "ok"
       /\ Len(ret.bits) = total_num_rows_
       /\ \A i \in 1..Len(ret.bits) :
            ret.bits[i] <=>
              \E j \in 1..Len(ret.args), c \in Cells :
                 /\ Occurrences(index_data_[c], i - 1) > 0
                 /\ Related(c, latLngToCell(ret.args[j].pts[1], resolution_))

\* C4: candidate superset.  On a built index, In({q}) sets the bit of every
\* non-null row whose geometry satisfies one of the predicates against q.
C4_CandidateSuperset ==
    (/\ ret.op = "In"
     /\ is_built_
     /\ Len(ret.args) = 1
     /\ Len(column) = total_num_rows_)
    => \A i \in 1..Len(column) :
         (/\ NonNullRow(i - 1)
          /\ IsValid(column[i]) /\ IsValid(ret.args[1])
          /\ \E op \in GisOps : GeoPredicate(op, column[i], ret.args[1]))
         => /\ ret.status = "ok"
            /\ i <= Len(ret.bits)
            /\ ret.bits[i]

\* C5: ExecGeoRelations(Equals) identity.  On a built index,
\* ExecGeoRelations with the bytes of a non-null row i as the one query and
\* op Equals completes without error and returns a bitmap with bit i set.
C5_EqualsIdentity ==
    (/\ ret.op = "ExecGeoRelations"
     /\ ret.gisop = "Equals"
     /\ is_built_
     /\ Len(ret.args) = 1
     /\ Len(column) = total_num_rows_)
    => \A i \in 1..Len(column) :
         (NonNullRow(i - 1) /\ column[i] # EmptyStr /\ ret.args[1] = column[i])
         => /\ ret.status = "ok"
            /\ i <= Len(ret.bits)
            /\ ret.bits[i]

\* C6: build rollback.  A build that fails on a row leaves cell_to_offsets,
\* raw, null_offsets, total_rows and is_built as they were before the call.
C6_BuildRollback ==
    [][(ret'.op \in BuildOps /\ ret'.status = "error") => index' = index]_vars

\* C7: one-shot build.  A Build(n, values), BuildWithFieldData or
\* Build(config) called on a built index is rejected and leaves the index
\* state unchanged.
C7_OneShotBuild ==
    [][(is_built_ /\ ret'.op \in BuildOps)
         => (ret'.status = "error" /\ index' = index)]_vars

\* C8: a query (In, NotIn, IsNull, IsNotNull, Reverse_Lookup,
\* ExecGeoRelations) called while is_built_ is false fails with the
\* not-built error and returns no bitmap, whatever its arguments.
C8_QueriesNeedBuilt ==
    (ret.op \in QueryOps /\ ~is_built_)
    => /\ ret.status = "error"
       /\ ret.err = NOT_BUILT
       /\ ret.bits = NoBits

\* ExecGeoRelations of one geometry, called on an index that is not built
\* and holds offsets of a build that failed, has been refused.
C8_Witness ==
    /\ ret.op = "ExecGeoRelations"
    /\ ~is_built_
    /\ null_offsets_ # <<>>
    /\ Len(ret.args) = 1
    /\ ret.args[1].kind = "Point"
    /\ ret.err = NOT_BUILT

\* C9: after a Build(values[0..N)) that succeeded, raw has length N, raw[i]
\* is values[i] for every i < N, total_rows is N and is_built is true.
C9_BuildStoresRaw ==
    (ret.op = "Build" /\ ret.status = "ok")
    => /\ Len(raw_data_) = Len(ret.args)
       /\ \A i \in 1..Len(ret.args) :
            i <= Len(raw_data_) /\ raw_data_[i] = ret.args[i]
       /\ total_num_rows_ = Len(ret.args)
       /\ is_built_

\* C10: representative consistency.  In a built index, every non-null row i
\* has its bytes in raw[i], and the list stored under the representative cell
\* of raw[i] at resolution_ contains i.
C10_RepresentativeConsistency ==
    (Alive /\ is_built_)
    => \A k \in 0..(total_num_rows_ - 1) :
         NonNullRow(k)
         => /\ k < Len(raw_data_)
            /\ \A r \in getRepresentH3Index(raw_data_[k + 1], resolution_) :
                 r.t = "cell" /\ Occurrences(index_data_[r.c], k) > 0

\* C11: In/NotIn complement.  On a built index, when In(Q) succeeds, NotIn(Q)
\* succeeds as well and, for every row offset, exactly one of In(Q)[i] and
\* NotIn(Q)[i] is set.
C11_InNotInComplement ==
    (/\ ret.op = "NotIn"
     /\ is_built_
     /\ \E a \in InResult(ret.args) : a.t = "ok")
    => /\ ret.status = "ok"
       /\ \A a \in InResult(ret.args) :
            a.t = "ok" =>
              /\ Len(a.bits) = Len(ret.bits)
              /\ \A i \in 1..Len(ret.bits) : a.bits[i] # ret.bits[i]

\* NotIn(Q) has returned on a built index of at least one row, for a Q that
\* In succeeds on.
C11_Witness ==
    /\ ret.op = "NotIn"
    /\ ret.status = "ok"
    /\ is_built_
    /\ total_num_rows_ >= 1
    /\ Len(ret.bits) = total_num_rows_
    /\ \E a \in InResult(ret.args) : a.t = "ok"

\* The bitmap of the rows of column whose input was the empty string.
NullBits == [i \in 1..Len(column) |-> column[i] = EmptyStr]

\* C12: null equivalence.  On a built index, reached by a build or by a load,
\* IsNull() returns the bitmap with exactly the bits of the rows whose input
\* was empty, and IsNotNull() returns its complement over 0..total_rows-1.
C12_NullEquivalence ==
    (/\ ret.op \in {"IsNull", "IsNotNull"}
     /\ is_built_
     /\ Len(column) = total_num_rows_)
    => /\ ret.status = "ok"
       /\ Len(ret.bits) = total_num_rows_
       /\ \A i \in 1..Len(ret.bits) :
            ret.bits[i] = IF ret.op = "IsNull" THEN NullBits[i] ELSE ~NullBits[i]

\* C13: null rows never match.  On a built index, the bit of every offset of
\* null_offsets_ is clear in the bitmap In returns and in the bitmap
\* ExecGeoRelations returns, for every op.
C13_NullRowsNeverMatch ==
    (/\ ret.op \in {"In", "ExecGeoRelations"}
     /\ is_built_
     /\ ret.status = "ok")
    => \A k \in 1..Len(null_offsets_) :
         null_offsets_[k] < Len(ret.bits) => ~ret.bits[null_offsets_[k] + 1]

\* ExecGeoRelations has returned a bitmap on a built index that holds a null
\* row.
C13_Witness ==
    /\ ret.op = "ExecGeoRelations"
    /\ ret.status = "ok"
    /\ is_built_
    /\ null_offsets_ # <<>>
    /\ total_num_rows_ >= 1
    /\ Len(ret.bits) = total_num_rows_

\* C14: ExecGeoRelations(values, op) over point queries and one of the seven
\* ops returns a bitmap in which bit i is set exactly when bit i is set in
\* In(values) and op holds between the geometry of row i and some values[j].
C14_ExecGeoRelationsBitmap ==
    (/\ ret.op = "ExecGeoRelations"
     /\ ret.gisop \in GisOps
     /\ is_built_
     /\ Len(column) = total_num_rows_
     /\ \A j \in 1..Len(ret.args) : ret.args[j].kind = "Point")
    => /\ ret.status = "ok"
       /\ Len(ret.bits) = total_num_rows_
       /\ \A i \in 1..Len(ret.bits) :
            ret.bits[i] <=>
              /\ \E a \in InResult(ret.args) :
                   a.t = "ok" /\ i <= Len(a.bits) /\ a.bits[i]
              /\ \E j \in 1..Len(ret.args) :
                   /\ IsValid(column[i])
                   /\ GeoPredicate(ret.gisop, column[i], ret.args[j])

\* C15: ExecGeoRelations with an op outside the seven fails with the
\* not-implemented error on every built index, for every query set, the
\* empty candidate set included.
C15_UnknownOpRejected ==
    (/\ ret.op = "ExecGeoRelations"
     /\ ret.gisop \notin GisOps
     /\ is_built_)
    => /\ ret.status = "error"
       /\ ret.err = NOT_IMPLEMENTED

\* C16: Serialize sizes the INDEX_DATA buffer exactly: the size
\* GetIndexDataSize reports, attached to the INDEX_DATA entry, is the number
\* of bytes SerializeIndexData writes.
C16_ExactBufferSize ==
    (ret.op \in {"Serialize", "Upload"} /\ ret.status = "ok")
    => binary.data_size = Width(binary.data)

\* An INDEX_DATA buffer whose records run past its end, or that holds a row
\* offset >= the stored number of rows.
Inconsistent(bs) ==
    \/ Width(bs.data) > bs.data_size
    \/ \E i \in 1..Len(bs.data) :
         /\ bs.data[i].k = "u32"
         /\ i > 1 /\ bs.data[i - 1].k # "cell"
         /\ i < Len(bs.data) /\ bs.data[i + 1].k = "u32"
         /\ bs.data[i].n >= bs.num_rows

\* C17: a load of a truncated or inconsistent INDEX_DATA buffer fails with an
\* error, and does not set is_built_.
C17_CorruptLoadFails ==
    [][(/\ ret'.op \in {"LoadWithoutAssemble", "Load"}
        /\ Inconsistent(binary))
         => (ret'.status = "error" /\ is_built_' = is_built_)]_vars

BitmapOps == {"In", "NotIn", "IsNull", "IsNotNull", "ExecGeoRelations"}

\* C18: every bitmap In, NotIn, IsNull, IsNotNull and ExecGeoRelations return
\* on a built index has exactly total_rows bits.
C18_BitmapLength ==
    (ret.op \in BitmapOps /\ is_built_ /\ ret.status = "ok")
    => Len(ret.bits) = total_num_rows_

\* NotIn of the empty query set has returned on a built index of several rows.
C18_Witness ==
    /\ ret.op = "NotIn"
    /\ ret.status = "ok"
    /\ ret.args = <<>>
    /\ is_built_
    /\ total_num_rows_ = MaxRows
    /\ Len(ret.bits) = MaxRows

\* C19: on a built index, Reverse_Lookup(offset) returns the bytes supplied
\* for row offset at build time when offset < total_rows, and fails with the
\* out-of-range error when offset >= total_rows.
C19_ReverseLookup ==
    (/\ ret.op = "Reverse_Lookup"
     /\ is_built_
     /\ Len(column) = total_num_rows_)
    => IF ret.off < total_num_rows_
       THEN ret.status = "ok" /\ ret.str = column[ret.off + 1]
       ELSE ret.status = "error" /\ ret.err = OUT_OF_RANGE

\* C20: in a built index, after a build and after a load, the offsets inside
\* each cell's list are strictly increasing.
C20_StrictlyIncreasingLists ==
    (Alive /\ is_built_)
    => \A c \in AllKeys :
         \A i \in 1..Len(index_data_[c]), j \in 1..Len(index_data_[c]) :
            i < j => index_data_[c][i] < index_data_[c][j]

\* C21: data mode / index mode equivalence.  For one query point and one of
\* the seven predicates, over a column of geometries, the bitmap Eval computes
\* in data mode is the bitmap ExecGeoRelations computes on the index built
\* over the same column.
C21_DataIndexEquivalence ==
    (/\ ret.op = "Eval"
     /\ ~ret.index_mode
     /\ ret.gisop \in GisOps
     /\ is_built_
     /\ total_num_rows_ >= 1
     /\ Len(column) = total_num_rows_
     /\ ret.args[1].kind = "Point"
     /\ \A i \in 1..Len(column) : IsValid(column[i]))
    => \A e \in ExecGeoRelationsResult(ret.args, ret.gisop) :
         /\ e.t = ret.status
         /\ e.t = "ok" => e.bits = ret.bits

\* C22: in index mode, Eval with a query point and one of the seven
\* predicates completes and returns the bitmap ExecGeoRelations produces for
\* the expression's query geometry and op.
C22_IndexModeEval ==
    (/\ ret.op = "Eval"
     /\ ret.index_mode
     /\ ret.gisop \in GisOps
     /\ is_built_
     /\ total_num_rows_ >= 1
     /\ Len(column) = total_num_rows_
     /\ ret.args[1].kind = "Point")
    => /\ ret.status = "ok"
       /\ \E e \in ExecGeoRelationsResult(ret.args, ret.gisop) :
            e.t = "ok" /\ e.bits = ret.bits

ReadOps == QueryOps \cup {"Serialize"}

\* What ret holds is what the call it names returns on the index as it is.
ReturnsAsAlone ==
    CASE ret.op = "In" ->
           \E o \in InResult(ret.args) :
              o.t = ret.status /\ o.e = ret.err /\ o.bits = ret.bits
      [] ret.op = "NotIn" ->
           \E o \in NotInResult(ret.args) :
              o.t = ret.status /\ o.e = ret.err /\ o.bits = ret.bits
      [] ret.op = "IsNull" ->
           \E o \in IsNullResult :
              o.t = ret.status /\ o.e = ret.err /\ o.bits = ret.bits
      [] ret.op = "IsNotNull" ->
           \E o \in IsNotNullResult :
              o.t = ret.status /\ o.e = ret.err /\ o.bits = ret.bits
      [] ret.op = "ExecGeoRelations" ->
           \E o \in ExecGeoRelationsResult(ret.args, ret.gisop) :
              o.t = ret.status /\ o.e = ret.err /\ o.bits = ret.bits
      [] ret.op = "Reverse_Lookup" ->
           IF ret.off < total_num_rows_
           THEN \E r \in ReadRaw(ret.off) : r.t = ret.status /\ r.s = ret.str
           ELSE ret.status = "error" /\ ret.err = OUT_OF_RANGE
      [] ret.op = "Serialize" ->
           \E o \in SerializeResult :
              o.t = ret.status /\ (o.t = "ok" => o.bs = binary)
      [] OTHER -> TRUE

C24_RangeNotSupported ==
    [][ret'.op = "Range"
         => (/\ ret'.status = "error"
             /\ ret'.err = NOT_IMPLEMENTED
             /\ index' = index)]_vars

\* The four-argument Range has been called on a built index that holds rows.
C24_Witness ==
    /\ ret.op = "Range"
    /\ ret.off = 2
    /\ ret.status = "error"
    /\ is_built_
    /\ total_num_rows_ >= 1

\* C25: the representative-cell reduction terminates.  A Build whose values
\* are line strings and polygons ends, each reduction having stopped at one
\* cell of a resolution in 0..r* or failed with an error: no reduction runs
\* forever, from an empty cell set or from cells under different base cells.
C25_ReductionTerminates ==
    (/\ ret.op = "Build"
     /\ Len(ret.args) >= 1
     /\ \A i \in 1..Len(ret.args) :
          ret.args[i].kind \in {"LineString", "Polygon"})
    => ret.status # "hang"

\* Some H3 call of In's or NotIn's loops over the point queries reports a
\* code other than Success.
H3CallFails(values) ==
    \E i \in 1..Len(values) :
       LET rep == latLngToCell(values[i].pts[1], resolution_) IN
       \/ \E res \in 0..getResolution(rep) :
             cellToParent(rep, res).err # Success
       \/ \E res \in (getResolution(rep) + 1)..resolution_ :
             cellToChildrenSize(rep, res).err # Success

\* C26: H3 errors.  In and NotIn over point queries on a built index raise
\* an error if and only if an H3 call returned a code other than Success;
\* when every H3 call succeeds they complete and return their bitmap.
C26_ErrorIffH3Fails ==
    (/\ ret.op \in {"In", "NotIn"}
     /\ is_built_
     /\ Len(ret.args) >= 1
     /\ \A i \in 1..Len(ret.args) : ret.args[i].kind = "Point")
    => /\ (ret.status = "error") <=> H3CallFails(ret.args)
       /\ ~H3CallFails(ret.args)
            => (ret.status = "ok" /\ Len(ret.bits) = total_num_rows_)

\* C27: the null set is restored.  After LoadWithoutAssemble, into a new
\* index, of the buffers Serialize produced on an index with null rows,
\* null_offsets_ holds the serialized null offsets in ascending order, and
\* IsNull() on the loaded index sets exactly the bits of those rows.
C27_NullSetRestored ==
    [][(/\ Fresh
        /\ ret'.op = "LoadWithoutAssemble"
        /\ binary.nulls # <<>>)
         => /\ ret'.status = "ok"
            /\ null_offsets_' = binary.nulls
            /\ \A i, j \in 1..Len(null_offsets_') :
                 i < j => null_offsets_'[i] < null_offsets_'[j]
            /\ \A o \in IsNullResult' :
                 /\ o.t = "ok"
                 /\ Len(o.bits) = binary.num_rows
                 /\ \A k \in 1..Len(o.bits) :
                      o.bits[k] <=> (\E i \in 1..Len(binary.nulls) :
                                        binary.nulls[i] = k - 1)]_vars

\* C28: a failed build is not visible as built.  After a Build that aborts
\* on a row, is_built_ is false, and a query on the index fails with the
\* not-built error.
C28_FailedBuildNotBuilt ==
    [][(ret'.op \in BuildOps /\ ret'.status = "error")
         => /\ ~is_built_'
            /\ \A o \in IsNullResult' :
                 o.t = "error" /\ o.e = NOT_BUILT]_vars

\* The rows of the batches, in batch order then row order.
RECURSIVE RowsOf(_)
RowsOf(batches) ==
    IF batches = <<>> THEN <<>>
    ELSE RowsOf(SubSeq(batches, 1, Len(batches) - 1))
         \o batches[Len(batches)].rows

\* One entry per row: the empty string for a row whose validity flag is
\* false, the row's bytes otherwise.
EntriesOf(rows) ==
    [i \in 1..Len(rows) |-> IF rows[i].valid THEN rows[i].s ELSE EmptyStr]

IsGeospatial(batch) == batch.type = "GEOSPATIAL"

\* BuildWithFieldData handed Build the entries of rows; after a successful
\* build total_rows is their number and the null rows are listed at their
\* positions.
BuiltFrom(rows) ==
    /\ ret.args = EntriesOf(rows)
    /\ ret.status = "ok"
         => /\ total_num_rows_ = Len(rows)
            /\ \A i \in 1..Len(rows) :
                 ~rows[i].valid
                   => \E j \in 1..Len(null_offsets_) : null_offsets_[j] = i - 1

AncestorOrEqual(a, v) == Len(a) <= Len(v) /\ SubSeq(v, 1, Len(a)) = a

\* The cells at r* of the vertices of g.
VertexCells(g) == {latLngToCell(g.pts[i], resolution_) : i \in 1..Len(g.pts)}

\* The common ancestors-or-equal of the cells of S.
CommonAncestors(S) == {a \in Cells : \A v \in S : AncestorOrEqual(a, v)}

\* C30: the representative cell.  For a LineString whose vertices map to
\* cells at r* under one base cell, getRepresentH3Index yields the deepest
\* common ancestor of the vertex cells: an ancestor-or-equal of each of them,
\* no cell of a higher resolution being one; for a Point it yields the cell
\* of the point at resolution r*.
C30_RepresentativeCell ==
    (/\ ret.op = "Build"
     /\ Len(ret.args) = 1
     /\ \/ ret.args[1].kind = "Point"
        \/ /\ ret.args[1].kind = "LineString"
           /\ Len(ret.args[1].pts) >= 1
           /\ \A v, w \in VertexCells(ret.args[1]) : v[1] = w[1])
    => \A r \in getRepresentH3Index(ret.args[1], resolution_) :
          /\ r.t = "cell"
          /\ IF ret.args[1].kind = "Point"
             THEN r.c = latLngToCell(ret.args[1].pts[1], resolution_)
             ELSE /\ r.c \in CommonAncestors(VertexCells(ret.args[1]))
                  /\ \A a \in CommonAncestors(VertexCells(ret.args[1])) :
                       getResolution(a) <= getResolution(r.c)
====
